---- MODULE Spec2Model ----
(***************************************************************************)
(* Session storage of lushus-session: the Redis-backed Store               *)
(* (redis_store.rs, redis_store/commands.rs, redis_session/                *)
(* redis_database.rs) and the storage-backed SessionStore                  *)
(* (session_store.rs), driven by concurrent clients; the SessionModel      *)
(* (session_model.rs) over the SessionStore, beside other clients of the   *)
(* same backend; and a Session with its typed accessors (session.rs).      *)
(*                                                                         *)
(* A Duration is a number of sub-second units (SubPerSec units make one    *)
(* second); the backend counts whole seconds.                              *)
(***************************************************************************)
EXTENDS Integers, Sequences, FiniteSets, TLC

\* ------------------------------------------------------------------ bounds
\* Longest whole-second part of a TTL a caller passes.
MaxTtlSecs == 2
\* Resolution of a Duration below one second.
SubPerSec == 2

Clients == {"c1", "c2"}
Keys == {"k1", "k2"}
\* The keys the concurrent clients contend for.
SharedKeys == {"k1"}
NoClient == "none"

\* TTLs callers pass: exactly one second (the tests' Duration::new(1, 0)),
\* and the longest TTL with a sub-second part.
TtlChoices == {SubPerSec, MaxTtlSecs * SubPerSec + 1}
MaxAge == MaxTtlSecs + 1

\* ------------------------------------------------------- SessionState
Fields == {"flag", "user_id"}
FieldOrder == <<"flag", "user_id">>
EmptyState == [f \in {} |-> ""]
\* The states the store's callers pass: every value of a field is the JSON
\* text Session::insert made of it (here the tests' user ids, JSON strings).
States ==
    { EmptyState,
      ("user_id" :> <<"\"", "beavis", "\"">>),
      ("user_id" :> <<"\"", "butt-head", "\"">>) }

\* Session::new(id, state)
SessionNew(id, state) == [id |-> id, state |-> state]
NoSession == SessionNew("", EmptyState)

\* impl From<&Session> for SessionState
StateOfSession(session) == session.state

\* serde_json::to_string(&state): the object's members, one pair per field.
ToJson(state) ==
    LET present == SelectSeq(FieldOrder, LAMBDA f : f \in DOMAIN state)
    IN  [i \in 1..Len(present) |-> <<present[i], state[present[i]]>>]

\* A stored text is a sequence of members <<name, value>>, the object whose
\* members are JSON strings, or holds a member <<name, value, kind>>: a member
\* that is no JSON string, or (with no name) a text that is no object.
\* serde_json::from_str::<SessionState>(&v) is Ok of the former only.
JsonDecodes(body) == \A i \in DOMAIN body : Len(body[i]) = 2

\* serde_json::from_str::<SessionState>(&v), when Ok: a map from the members,
\* the last member of a name winning.
FromJson(body) ==
    [f \in { body[i][1] : i \in DOMAIN body } |->
        body[CHOOSE i \in DOMAIN body :
                /\ body[i][1] = f
                /\ \A j \in DOMAIN body : j > i => body[j][1] # f][2]]

\* ------------------------------------------------------------ Duration
\* Duration::as_secs: the whole seconds, the sub-second part dropped.
AsSecs(d) == d \div SubPerSec

\* A Duration: units sub-second units, and 2^64 seconds more when wrap.
DurationOf(units) == [wrap |-> FALSE, units |-> units]
\* Duration::from_secs(secs) of a u64
DurationFromSecs(secs) == [wrap |-> secs.wrap, units |-> secs.n * SubPerSec]

\* format!("{}", n)
DigitChars == <<"0", "1", "2", "3", "4", "5", "6", "7", "8", "9">>
RECURSIVE FormatInt(_)
FormatInt(n) ==
    IF n < Len(DigitChars)
      THEN <<DigitChars[n + 1]>>
      ELSE FormatInt(n \div Len(DigitChars)) \o <<DigitChars[(n % Len(DigitChars)) + 1]>>

DigitValue(ch) == (CHOOSE i \in DOMAIN DigitChars : DigitChars[i] = ch) - 1
RECURSIVE ParseInt(_)
ParseInt(digits) ==
    IF Len(digits) = 0
      THEN 0
      ELSE ParseInt(SubSeq(digits, 1, Len(digits) - 1)) * Len(DigitChars)
             + DigitValue(digits[Len(digits)])

\* ------------------------------------------------------------- Command
NoBody == << >>
CommandGet(key) == [name |-> "Get", key |-> key, value |-> NoBody, ttl |-> 0]
CommandSet(key, value, ttl) == [name |-> "Set", key |-> key, value |-> value, ttl |-> ttl]
CommandUpdate(key, value, ttl) == [name |-> "Update", key |-> key, value |-> value, ttl |-> ttl]
CommandDelete(key) == [name |-> "Delete", key |-> key, value |-> NoBody, ttl |-> 0]
CommandExists(key) == [name |-> "Exists", key |-> key, value |-> NoBody, ttl |-> 0]
CommandTtl(key) == [name |-> "TTL", key |-> key, value |-> NoBody, ttl |-> 0]

\* The conditional flag of the create command.
SetFlag == "NX"
\* The conditional flag of the update command.
\* (as a bug would have it: the create flag copied into the update arm)
UpdateFlagNX == "NX"
UpdateFlag == "XX"

\* The EX argument of Set and Update.
\* (as a bug would have it: the Duration's own units passed as seconds)
ExpiryArgSubUnits(ttl) == FormatInt(ttl)
\* (as a bug would have it: the seconds rounded up)
ExpiryArgRoundedUp(ttl) == FormatInt((ttl + SubPerSec - 1) \div SubPerSec)
ExpiryArg(ttl) == FormatInt(AsSecs(ttl))

\* impl From<Command> for redis::Cmd
ToCmd(command) ==
    CASE command.name = "Delete" -> <<"DEL", command.key>>
      [] command.name = "Exists" -> <<"EXISTS", command.key>>
      [] command.name = "Get" -> <<"GET", command.key>>
      [] command.name = "Set" ->
            <<"SET", command.key, command.value, SetFlag, "EX", ExpiryArg(command.ttl)>>
      [] command.name = "TTL" -> <<"TTL", command.key>>
      [] command.name = "Update" ->
            <<"SET", command.key, command.value, UpdateFlag, "EX", ExpiryArg(command.ttl)>>

\* ------------------------------------------------------- the backend
\* A record of the key-value backend: a value and its remaining seconds, or
\* NoExpiry for a record that never expires.
NoExpiry == -1
\* The reply of TTL for a key that holds no record.
NoKey == -2
NoRec == [live |-> FALSE, value |-> NoBody, ttl |-> 0]
Rec(value, secs) == [live |-> TRUE, value |-> value, ttl |-> secs]

ReplyOkay == [kind |-> "okay", data |-> NoBody, int |-> 0]
ReplyNil == [kind |-> "nil", data |-> NoBody, int |-> 0]
ReplyBulk(data) == [kind |-> "bulk", data |-> data, int |-> 0]
ReplyInt(n) == [kind |-> "int", data |-> NoBody, int |-> n]
ReplyError == [kind |-> "error", data |-> NoBody, int |-> 0]
NoReply == [kind |-> "none", data |-> NoBody, int |-> 0]

\* The backend executing one wire command atomically: the new keyspace and
\* the reply (GET: bulk or nil; SET: OK or nil, and an error for an expiry
\* that is not positive; DEL, EXISTS: integer; TTL: the remaining seconds, or
\* a negative integer for no expiry and for no key).
RedisExecute(store, cmd) ==
    LET key == cmd[2]
    IN  CASE cmd[1] = "GET" ->
               [store |-> store,
                reply |-> IF store[key].live THEN ReplyBulk(store[key].value) ELSE ReplyNil]
          [] cmd[1] = "SET" ->
               LET accept == IF cmd[4] = "NX" THEN ~store[key].live ELSE store[key].live
               IN  IF ParseInt(cmd[6]) = 0
                     THEN [store |-> store, reply |-> ReplyError]
                     ELSE IF accept
                       THEN [store |-> [store EXCEPT ![key] = Rec(cmd[3], ParseInt(cmd[6]))],
                             reply |-> ReplyOkay]
                       ELSE [store |-> store, reply |-> ReplyNil]
          [] cmd[1] = "DEL" ->
               [store |-> [store EXCEPT ![key] = NoRec],
                reply |-> ReplyInt(IF store[key].live THEN 1 ELSE 0)]
          [] cmd[1] = "EXISTS" ->
               [store |-> store,
                reply |-> ReplyInt(IF store[key].live THEN 1 ELSE 0)]
          [] cmd[1] = "TTL" ->
               [store |-> store,
                reply |-> ReplyInt(IF store[key].live THEN store[key].ttl ELSE NoKey)]

\* ExecuteCommand::execute_command: the command converted and queried.
ExecuteCommand(store, command) == RedisExecute(store, ToCmd(command))

\* --------------------------------------------------- redis conversions
\* query_async returns the backend's error reply as an error, whatever the
\* type asked for.
\* FromRedisValue for (): every other reply converts to the unit value.
FromRedisUnit(reply) == [ok |-> reply.kind # "error"]
\* FromRedisValue for redis::Value: the reply itself.
FromRedisValue(reply) == [ok |-> reply.kind # "error", value |-> reply]

\* FromRedisValue for Option<String>: nil is None, a bulk string is Some.
FromRedisOptString(reply) ==
    [ok |-> reply.kind \in {"nil", "bulk"},
     some |-> reply.kind = "bulk",
     data |-> reply.data]

\* FromRedisValue for u64: an integer reply, cast (val as u64). A negative
\* integer wraps: wrap says that the value is 2^64 + n.
\* (as a bug would have it: a negative integer refused)
FromRedisU64Checked(reply) ==
    [ok |-> reply.kind = "int" /\ reply.int >= 0, n |-> reply.int, wrap |-> FALSE]
FromRedisU64(reply) ==
    [ok |-> reply.kind = "int", n |-> reply.int, wrap |-> reply.int < 0]

\* ------------------------------------------------------------ results
OkUnit == [tag |-> "ok_unit", session |-> NoSession, flag |-> FALSE, err |-> ""]
OkNone == [tag |-> "ok_none", session |-> NoSession, flag |-> FALSE, err |-> ""]
OkSome(session) == [tag |-> "ok_some", session |-> session, flag |-> FALSE, err |-> ""]
OkBool(b) == [tag |-> "ok_bool", session |-> NoSession, flag |-> b, err |-> ""]
Err(e) == [tag |-> "err", session |-> NoSession, flag |-> FALSE, err |-> e]
NoResult == [tag |-> "none", session |-> NoSession, flag |-> FALSE, err |-> ""]

IsOk(result) == result.tag \in {"ok_unit", "ok_none", "ok_some", "ok_bool"}
IsErr(result) == result.tag = "err"

QueryError == "RedisError::QueryError"
SerializationError == "SerializationError"
UpdateNil == "BackendError: Update returned nil response data"
UpdateInvalid == "BackendError: Update returned invalid response data"
UpdateError == "UpdateError: Expected key to be present"

\* Configuration::default: key_gen is |v| v.as_ref().to_owned().
\* (as a bug would have it: a key_gen that ignores the session key)
KeyGenOneRecord(session_key) == "k1"
KeyGen(session_key) == session_key

\* ------------------------------------------------- Session (session.rs)
\* The values callers put into a session: a String, a u64, or the tests'
\* struct User {username, password}.
NoUser == <<"", "">>
StringValue(s) == [type |-> "String", str |-> s, num |-> 0, user |-> NoUser]
U64Value(n) == [type |-> "u64", str |-> "", num |-> n, user |-> NoUser]
UserValue(name, pw) == [type |-> "User", str |-> "", num |-> 0, user |-> <<name, pw>>]
NoValue == [type |-> "none", str |-> "", num |-> 0, user |-> NoUser]
Types == {"String", "u64", "User"}
MaxNum == 12
Values ==
    { StringValue("beavis"), StringValue("butt-head"),
      U64Value(0), U64Value(MaxNum),
      UserValue("brandon", "hunter2") }

\* serde_json::to_string(value): the JSON text of the value, token by token.
SerdeToString(value) ==
    CASE value.type = "String" -> <<"\"", value.str, "\"">>
      [] value.type = "u64" -> FormatInt(value.num)
      [] value.type = "User" ->
            <<"{", "username", value.user[1], "password", value.user[2], "}">>

IsDigits(raw) ==
    Len(raw) > 0 /\ \A i \in DOMAIN raw : \E j \in DOMAIN DigitChars : DigitChars[j] = raw[i]

\* serde_json::from_str::<T>(raw): the value of type T the text denotes, or an
\* error when the text is not one of a T.
SerdeFromStr(type, raw) ==
    CASE type = "String" ->
            IF Len(raw) = 3 /\ raw[1] = "\"" /\ raw[3] = "\""
              THEN [ok |-> TRUE, value |-> StringValue(raw[2])]
              ELSE [ok |-> FALSE, value |-> NoValue]
      [] type = "u64" ->
            IF IsDigits(raw)
              THEN [ok |-> TRUE, value |-> U64Value(ParseInt(raw))]
              ELSE [ok |-> FALSE, value |-> NoValue]
      [] type = "User" ->
            IF Len(raw) = 6 /\ raw[1] = "{" /\ raw[2] = "username"
                 /\ raw[4] = "password" /\ raw[6] = "}"
              THEN [ok |-> TRUE, value |-> UserValue(raw[3], raw[5])]
              ELSE [ok |-> FALSE, value |-> NoValue]

\* SessionState::insert, remove, get, contains_key
StateInsert(state, key, value) ==
    [f \in DOMAIN state \cup {key} |-> IF f = key THEN value ELSE state[f]]
\* (as a bug would have it: the map cleared)
StateRemoveAll(state, key) == [f \in {} |-> state[f]]
StateRemove(state, key) == [f \in DOMAIN state \ {key} |-> state[f]]
StateContainsKey(state, key) == key \in DOMAIN state
StateGet(state, key) == state[key]

\* The result of a typed accessor: Ok(()), Ok(None), Ok(Some(value)) or Err.
GetDeserializeError == "StorageGetError::DeserializeError"
RemoveDeserializeError == "StorageRemoveError::DeserializeError"
\* An error is its variant and the key it names.
NoError == <<"", "">>
AccUnit == [tag |-> "ok_unit", value |-> NoValue, err |-> NoError]
AccNone == [tag |-> "ok_none", value |-> NoValue, err |-> NoError]
AccSome(value) == [tag |-> "ok_some", value |-> value, err |-> NoError]
AccErr(e, key) == [tag |-> "err", value |-> NoValue, err |-> <<e, key>>]
NoAcc == [tag |-> "none", value |-> NoValue, err |-> NoError]

\* Storage<&str> for Session: insert. The value is stored as its JSON text.
\* (as a bug would have it: a field already present kept as it is)
SessionInsertIfAbsent(session, key, value) ==
    LET insert == SerdeToString(value)
    IN  [session |-> IF StateContainsKey(session.state, key) THEN session
                     ELSE [session EXCEPT !.state = StateInsert(@, key, insert)],
         result |-> AccUnit]
SessionInsert(session, key, value) ==
    LET insert == SerdeToString(value)
    IN  [session |-> [session EXCEPT !.state = StateInsert(@, key, insert)],
         result |-> AccUnit]

\* Storage<&str> for Session: remove. The field is taken out of the state
\* before its text is decoded.
\* (as a bug would have it: the field decoded and left in the state)
SessionRemoveKeeping(session, key, type) ==
    LET had == StateContainsKey(session.state, key)
        v == IF had THEN SerdeFromStr(type, StateGet(session.state, key))
                    ELSE [ok |-> TRUE, value |-> NoValue]
    IN  [session |-> session,
         result |-> IF ~had THEN AccNone
                    ELSE IF v.ok THEN AccSome(v.value)
                    ELSE AccErr(RemoveDeserializeError, key)]
SessionRemove(session, key, type) ==
    LET had == StateContainsKey(session.state, key)
        v == IF had THEN SerdeFromStr(type, StateGet(session.state, key))
                    ELSE [ok |-> TRUE, value |-> NoValue]
    IN  [session |-> [session EXCEPT !.state = StateRemove(@, key)],
         result |-> IF ~had THEN AccNone
                    ELSE IF v.ok THEN AccSome(v.value)
                    ELSE AccErr(RemoveDeserializeError, key)]

\* Storage<&str> for Session: get
\* (as a bug would have it: a field that does not decode dropped from the state)
SessionGetDropping(session, key, type) ==
    LET had == StateContainsKey(session.state, key)
        v == IF had THEN SerdeFromStr(type, StateGet(session.state, key))
                    ELSE [ok |-> TRUE, value |-> NoValue]
    IN  [session |-> IF had /\ ~v.ok
                       THEN [session EXCEPT !.state = StateRemove(@, key)]
                       ELSE session,
         result |-> IF ~had THEN AccNone
                    ELSE IF v.ok THEN AccSome(v.value)
                    ELSE AccErr(GetDeserializeError, key)]
SessionGet(session, key, type) ==
    LET had == StateContainsKey(session.state, key)
        v == IF had THEN SerdeFromStr(type, StateGet(session.state, key))
                    ELSE [ok |-> TRUE, value |-> NoValue]
    IN  [session |-> session,
         result |-> IF ~had THEN AccNone
                    ELSE IF v.ok THEN AccSome(v.value)
                    ELSE AccErr(GetDeserializeError, key)]

\* ------------------------------------------- Store for &T (redis_store.rs)
\* Every operation gives the keyspace after it, its result, and cmds, the
\* commands it had the backend execute.

\* Store::load
\* (as a bug would have it: a value that does not decode taken for no value)
StoreLoadLenient(store, session_key) ==
    LET cache_key == KeyGen(session_key)
        command == CommandGet(cache_key)
        r == ExecuteCommand(store, command)
        value == FromRedisOptString(r.reply)
    IN  [store |-> r.store, cmds |-> <<ToCmd(command)>>,
         result |-> IF ~value.ok THEN Err(QueryError)
                    ELSE IF value.some /\ JsonDecodes(value.data)
                      THEN OkSome(SessionNew(session_key, FromJson(value.data)))
                      ELSE OkNone]
StoreLoad(store, session_key) ==
    LET cache_key == KeyGen(session_key)
        command == CommandGet(cache_key)
        r == ExecuteCommand(store, command)
        value == FromRedisOptString(r.reply)
    IN  [store |-> r.store, cmds |-> <<ToCmd(command)>>,
         result |-> IF ~value.ok THEN Err(QueryError)
                    ELSE IF value.some
                      THEN IF JsonDecodes(value.data)
                             THEN OkSome(SessionNew(session_key, FromJson(value.data)))
                             ELSE Err(SerializationError)
                      ELSE OkNone]

\* Store::save
StoreSave(store, session, timeout) ==
    LET cache_key == KeyGen(session.id)
        body == ToJson(StateOfSession(session))
        command == CommandSet(cache_key, body, timeout)
        r == ExecuteCommand(store, command)
        unit == FromRedisUnit(r.reply)
    IN  [store |-> r.store, cmds |-> <<ToCmd(command)>>,
         result |-> IF unit.ok THEN OkUnit ELSE Err(QueryError)]

\* The match on the reply of the update command.
\* (as a bug would have it: a nil reply taken for success)
UpdateReplyAnyButNilIsOk(value) ==
    IF value.kind = "nil" THEN Err(UpdateNil) ELSE OkUnit
UpdateReplyNilIsOk(value) ==
    IF value.kind \in {"okay", "nil"} THEN OkUnit ELSE Err(UpdateInvalid)
UpdateReply(value) ==
    CASE value.kind = "okay" -> OkUnit
      [] value.kind = "nil" -> Err(UpdateNil)
      [] OTHER -> Err(UpdateInvalid)

\* Store::update
\* (as a bug would have it: the body built from a default state)
StoreUpdateDefaultState(store, session, timeout) ==
    LET cache_key == KeyGen(session.id)
        body == ToJson(EmptyState)
        command == CommandUpdate(cache_key, body, timeout)
        r == ExecuteCommand(store, command)
    IN  [store |-> r.store, cmds |-> <<ToCmd(command)>>, reply |-> r.reply,
         result |-> IF FromRedisValue(r.reply).ok
                      THEN UpdateReply(FromRedisValue(r.reply).value)
                      ELSE Err(QueryError)]
\* (as a bug would have it: the session's fields merged into the stored ones)
StoreUpdateMerging(store, session, timeout) ==
    LET cache_key == KeyGen(session.id)
        stored == IF store[cache_key].live THEN FromJson(store[cache_key].value)
                                          ELSE EmptyState
        merged == [f \in DOMAIN stored \cup DOMAIN session.state |->
                     IF f \in DOMAIN session.state THEN session.state[f] ELSE stored[f]]
        body == ToJson(merged)
        command == CommandUpdate(cache_key, body, timeout)
        r == ExecuteCommand(store, command)
    IN  [store |-> r.store, cmds |-> <<ToCmd(command)>>, reply |-> r.reply,
         result |-> IF FromRedisValue(r.reply).ok
                      THEN UpdateReply(FromRedisValue(r.reply).value)
                      ELSE Err(QueryError)]
StoreUpdate(store, session, timeout) ==
    LET cache_key == KeyGen(session.id)
        body == ToJson(StateOfSession(session))
        command == CommandUpdate(cache_key, body, timeout)
        r == ExecuteCommand(store, command)
    IN  [store |-> r.store, cmds |-> <<ToCmd(command)>>, reply |-> r.reply,
         result |-> IF FromRedisValue(r.reply).ok
                      THEN UpdateReply(FromRedisValue(r.reply).value)
                      ELSE Err(QueryError)]
\* Store::update, the backend's reply being the given one (a backend, or
\* something on the way to it, that does not keep to the protocol).
StoreUpdateReplied(store, session, timeout, reply) ==
    LET cache_key == KeyGen(session.id)
        body == ToJson(StateOfSession(session))
        command == CommandUpdate(cache_key, body, timeout)
        r == ExecuteCommand(store, command)
    IN  [store |-> r.store, cmds |-> <<ToCmd(command)>>, reply |-> reply,
         result |-> IF FromRedisValue(reply).ok
                      THEN UpdateReply(FromRedisValue(reply).value)
                      ELSE Err(QueryError)]

\* Store::destroy
\* (as a bug would have it: a delete that removed nothing reported as an error)
StoreDestroyStrict(store, session_key) ==
    LET cache_key == KeyGen(session_key)
        command == CommandDelete(cache_key)
        r == ExecuteCommand(store, command)
    IN  [store |-> r.store, cmds |-> <<ToCmd(command)>>,
         result |-> IF r.reply.int > 0 THEN OkUnit ELSE Err(QueryError)]
StoreDestroy(store, session_key) ==
    LET cache_key == KeyGen(session_key)
        command == CommandDelete(cache_key)
        r == ExecuteCommand(store, command)
        unit == FromRedisUnit(r.reply)
    IN  [store |-> r.store, cmds |-> <<ToCmd(command)>>,
         result |-> IF unit.ok THEN OkUnit ELSE Err(QueryError)]

\* The test on the reply of the exists command.
\* (as a bug would have it: a reply of zero taken for present)
ExistsTestNonNegative(n) == n >= 0
ExistsTest(n) == n > 0

\* Store::exists
StoreExists(store, session_key) ==
    LET cache_key == KeyGen(session_key)
        command == CommandExists(cache_key)
        r == ExecuteCommand(store, command)
        exists == FromRedisU64(r.reply)
    IN  [store |-> r.store, cmds |-> <<ToCmd(command)>>,
         result |-> IF exists.ok THEN OkBool(ExistsTest(exists.n)) ELSE Err(QueryError)]

\* Store::ttl
StoreTtl(store, session_key) ==
    LET cache_key == KeyGen(session_key)
        command == CommandTtl(cache_key)
        r == ExecuteCommand(store, command)
        ttl == FromRedisU64(r.reply)
    IN  [store |-> r.store, cmds |-> <<ToCmd(command)>>,
         ok |-> ttl.ok,
         duration |-> DurationFromSecs(ttl)]

\* ------------------------------------------------------------ SessionKey
\* The number of characters SessionKey::generate takes.
KeyLen == 64
\* The states of the entropy source of the model (OsRng).
RngStates == 67

\* ASCII, bytes 48 ("0") to 122 ("z"), as String::from_utf8 reads them
\* (byte 96, the grave accent, by its name).
Ascii ==
    <<"0", "1", "2", "3", "4", "5", "6", "7", "8", "9",
      ":", ";", "<", "=", ">", "?", "@",
      "A", "B", "C", "D", "E", "F", "G", "H", "I", "J", "K", "L", "M",
      "N", "O", "P", "Q", "R", "S", "T", "U", "V", "W", "X", "Y", "Z",
      "[", "\\", "]", "^", "_", "grave",
      "a", "b", "c", "d", "e", "f", "g", "h", "i", "j", "k", "l", "m",
      "n", "o", "p", "q", "r", "s", "t", "u", "v", "w", "x", "y", "z">>
FromUtf8(bytes) == [i \in 1..Len(bytes) |-> Ascii[bytes[i] - 47]]

\* rand's Alphanumeric distribution: the bytes of A-Z, a-z, 0-9, in the
\* order of its charset.
AlphanumericCharset ==
    [i \in 1..62 |-> IF i <= 26 THEN 64 + i
                     ELSE IF i <= 52 THEN 96 + (i - 26)
                     ELSE 47 + (i - 52)]
\* OsRng.sample(Alphanumeric): one byte of the charset, chosen by the
\* entropy read.
SampleAlphanumeric(rng) == AlphanumericCharset[(rng % Len(AlphanumericCharset)) + 1]
\* The entropy source after a read.
OsRngNext(rng) == (rng * 5 + 3) % RngStates

\* SessionKey(String)
SessionKeyOf(string) == [inner |-> string]
NoSessionKey == SessionKeyOf(<<>>)
\* (as #[derive(Debug)] renders a SessionKey)
SessionKeyDebug(k) == <<"S", "e", "s", "s", "i", "o", "n", "K", "e", "y", "(", "\"">> \o k.inner \o <<"\"", ")">>
\* impl Display for SessionKey: write!(f, "{}", self.0)
SessionKeyDisplay(k) == k.inner
\* ToString, through Display.
SessionKeyToString(k) == SessionKeyDisplay(k)
\* impl AsRef<str> for SessionKey
SessionKeyAsRef(k) == k.inner

NoKeygen == [pc |-> "idle", via |-> "", rng |-> 0, value |-> <<>>,
             key |-> NoSessionKey, by |-> "", shown |-> <<>>]

\* --------------------------------------------------------------- state
VARIABLES
    db,        \* the backend's keyspace: record key -> record
    mem,       \* the storage behind the storage-backed SessionStore: key -> body
    status,    \* per client: "idle", "pending" (call in flight) or "done"
    call,      \* per client: the store call in flight or last completed
    res,       \* per client: the result of the completed call
    last,      \* the client whose call the backend executed most recently
    written,   \* per key: the TTL and age of the latest write to the key
    sess,      \* the Session of the SessionModel (or a Session on its own)
    duration,  \* the SessionModel's duration
    origin,    \* how the SessionModel was made: "none", "new" or "load"
    pc,        \* the SessionModel's position: "none" (no model), "idle",
               \* "load_ttl" (inside load), "save_write" (inside save)
    frame,     \* the locals of the SessionModel call under way
    ret,       \* what the SessionModel's latest call returned
    sent,      \* the store operations the latest SessionModel call dispatched
    acc,       \* the latest typed accessor call and its result
    held,      \* per field: the value last inserted and not removed since
    keygen     \* SessionKey::generate under way, the key made and its rendering
cvars == <<status, call, res, written>>
mvars == <<sess, duration, origin, pc, frame, ret, sent, acc, held, keygen>>
vars == <<db, mem, status, call, res, last, written,
          sess, duration, origin, pc, frame, ret, sent, acc, held, keygen>>

NoCall == [op |-> "none", key |-> "", state |-> EmptyState, ttl |-> 0, conc |-> FALSE]
NoRes == [val |-> NoResult, pre |-> FALSE, reply |-> NoReply, dur |-> DurationOf(0)]
NoWrite == [set |-> FALSE, ttl |-> 0, age |-> 0]
NoBodyRec == NoRec
NoFrame == [key |-> "", exists |-> FALSE, loaded |-> NoResult, seen |-> NoRec]
NoRet == [op |-> "none", val |-> NoResult, probe |-> FALSE, before |-> NoRec,
          seen |-> NoRec, touched |-> {}, failed |-> 0, cause |-> "", after |-> ""]
NoAccess == [op |-> "none", field |-> "", type |-> "none", given |-> NoValue, result |-> NoAcc]

KeyOps == {"load", "destroy", "exists"}
SessionOps == {"save", "update"}
\* The store calls a client may issue on the keys ks.
CallsOn(ks) ==
    { [op |-> o, key |-> k, state |-> EmptyState, ttl |-> 0, conc |-> FALSE] : o \in KeyOps, k \in ks }
      \cup
    { [op |-> o, key |-> k, state |-> st, ttl |-> t, conc |-> FALSE] :
        o \in SessionOps, k \in ks, st \in States, t \in TtlChoices }

CallSession(c) == SessionNew(call[c].key, call[c].state)

Init ==
    /\ db = [k \in Keys |-> NoRec]
    /\ mem = [k \in Keys |-> NoBodyRec]
    /\ status = [c \in Clients |-> "idle"]
    /\ call = [c \in Clients |-> NoCall]
    /\ res = [c \in Clients |-> NoRes]
    /\ last = NoClient
    /\ written = [k \in Keys |-> NoWrite]
    /\ sess = NoSession
    /\ duration = DurationOf(0)
    /\ origin = "none"
    /\ pc = "none"
    /\ frame = NoFrame
    /\ ret = NoRet
    /\ sent = << >>
    /\ acc = NoAccess
    /\ held = [f \in Fields |-> NoValue]
    /\ keygen = NoKeygen

\* The calls of other clients in flight on the key.
InFlight(c, key) ==
    { d \in Clients \ {c} : status[d] = "pending" /\ call[d].key = key }

\* A client issues a store call: the call is in flight until the backend
\* executes it. Calls in flight on the same key at the same time are marked
\* concurrent.
Request(c, calls) ==
    /\ status[c] \in {"idle", "done"}
    /\ \E cl \in calls :
          call' = [d \in Clients |->
                     IF d = c THEN [cl EXCEPT !.conc = InFlight(c, cl.key) # {}]
                     ELSE IF d \in InFlight(c, cl.key) THEN [call[d] EXCEPT !.conc = TRUE]
                     ELSE call[d]]
    /\ status' = [status EXCEPT ![c] = "pending"]
    /\ res' = [res EXCEPT ![c] = NoRes]
    /\ last' = IF last = c THEN NoClient ELSE last
    /\ UNCHANGED <<db, mem, written>>
    /\ UNCHANGED mvars

\* What a completed call records: its result, whether the key had a live
\* record when the backend executed it, and (of an update) the reply matched.
\* A completed ttl records the duration returned as well.
Answered(c, result, live, reply, dur) ==
    /\ res' = [res EXCEPT ![c] = [val |-> result, pre |-> live, reply |-> reply, dur |-> dur]]
    /\ status' = [status EXCEPT ![c] = "done"]
    /\ last' = c
    /\ UNCHANGED call
    /\ UNCHANGED mvars

Replied(c, result, live, reply) == Answered(c, result, live, reply, DurationOf(0))
Completed(c, result, live) == Replied(c, result, live, NoReply)

Pending(c, op) == status[c] = "pending" /\ call[c].op = op

Load(c) ==
    /\ Pending(c, "load")
    /\ LET r == StoreLoad(db, call[c].key)
       IN  /\ db' = r.store
           /\ Completed(c, r.result, db[call[c].key].live)
    /\ UNCHANGED <<mem, written>>

Save(c) ==
    /\ Pending(c, "save")
    /\ LET k == call[c].key
           r == StoreSave(db, CallSession(c), call[c].ttl)
       IN  /\ db' = r.store
           /\ Completed(c, r.result, db[k].live)
           /\ written' = IF r.store[k] # db[k]
                           THEN [written EXCEPT ![k] =
                                   [set |-> TRUE, ttl |-> call[c].ttl, age |-> 0]]
                           ELSE written
    /\ UNCHANGED mem

Update(c) ==
    /\ Pending(c, "update")
    /\ LET k == call[c].key
           r == StoreUpdate(db, CallSession(c), call[c].ttl)
       IN  /\ db' = r.store
           /\ Replied(c, r.result, db[k].live, r.reply)
           /\ written' = IF db[k].live /\ r.store[k].live
                           THEN [written EXCEPT ![k] =
                                   [set |-> TRUE, ttl |-> call[c].ttl, age |-> 0]]
                           ELSE written
    /\ UNCHANGED mem

Destroy(c) ==
    /\ Pending(c, "destroy")
    /\ LET k == call[c].key
           r == StoreDestroy(db, k)
       IN  /\ db' = r.store
           /\ Completed(c, r.result, db[k].live)
           /\ written' = [written EXCEPT ![k] = NoWrite]
    /\ UNCHANGED mem

Exists(c) ==
    /\ Pending(c, "exists")
    /\ LET r == StoreExists(db, call[c].key)
       IN  /\ db' = r.store
           /\ Completed(c, r.result, db[call[c].key].live)
    /\ UNCHANGED <<mem, written>>

\* One second passes at the backend: every record's remaining time drops by
\* one and a record whose time is up is gone.
Expire(rec) ==
    IF rec.live /\ rec.ttl = NoExpiry THEN rec
    ELSE IF rec.live /\ rec.ttl > 1 THEN [rec EXCEPT !.ttl = rec.ttl - 1] ELSE NoRec

Tick ==
    /\ db' = [k \in Keys |-> Expire(db[k])]
    /\ written' = [k \in Keys |->
          IF written[k].set /\ written[k].age < MaxAge
            THEN [written[k] EXCEPT !.age = written[k].age + 1]
            ELSE written[k]]
    /\ last' = NoClient
    /\ UNCHANGED <<mem, status, call, res>>
    /\ UNCHANGED mvars

Next ==
    \/ \E c \in Clients : Request(c, CallsOn(SharedKeys))
    \/ \E c \in Clients : Load(c)
    \/ \E c \in Clients : Save(c)
    \/ \E c \in Clients : Update(c)
    \/ \E c \in Clients : Destroy(c)
    \/ \E c \in Clients : Exists(c)
    \/ Tick

Spec == Init /\ [][Next]_vars

\* ------------------------------- the storage-backed SessionStore
\* StorageWrite::insert: the value is stored under the key, whatever was
\* there; the previous value is returned. The call takes no time-to-live and
\* the record is given none.
StorageInsert(m, key, value) ==
    [store |-> [m EXCEPT ![key] = Rec(value, NoExpiry)],
     prev |-> m[key]]

\* StorageWrite::remove
StorageRemove(m, key) ==
    [store |-> [m EXCEPT ![key] = NoBodyRec], prev |-> m[key]]

\* StorageRead::get
StorageGet(m, key) == m[key]

\* StorageRead::exists
StorageExists(m, key) == m[key].live

\* SessionStore::load
\* (as a bug would have it: the session made under a key of its own)
SessionStoreLoadOwnKey(m, session_key) ==
    LET state == StorageGet(m, session_key)
        own == CHOOSE k \in Keys : k # session_key
    IN  [store |-> m, cmds |-> <<<<"get", session_key>>>>,
         result |-> IF state.live
                      THEN OkSome(SessionNew(own, FromJson(state.value)))
                      ELSE OkNone]
SessionStoreLoad(m, session_key) ==
    LET state == StorageGet(m, session_key)
    IN  [store |-> m, cmds |-> <<<<"get", session_key>>>>,
         result |-> IF state.live
                      THEN OkSome(SessionNew(session_key, FromJson(state.value)))
                      ELSE OkNone]

\* SessionStore::save
\* (as a bug would have it: the body built from a default state)
SessionStoreSaveDefaultState(m, session) ==
    LET body == ToJson(EmptyState)
        r == StorageInsert(m, session.id, body)
    IN  [store |-> r.store, cmds |-> <<<<"insert", session.id>>>>, result |-> OkUnit]
SessionStoreSave(m, session) ==
    LET body == ToJson(StateOfSession(session))
        r == StorageInsert(m, session.id, body)
    IN  [store |-> r.store, cmds |-> <<<<"insert", session.id>>>>, result |-> OkUnit]

\* SessionStore::update
SessionStoreUpdate(m, session) ==
    LET body == ToJson(StateOfSession(session))
        r == StorageInsert(m, session.id, body)
    IN  [store |-> r.store, cmds |-> <<<<"insert", session.id>>>>,
         result |-> IF r.prev.live THEN OkUnit ELSE Err(UpdateError)]

\* SessionStore::destroy
SessionStoreDestroy(m, session_key) ==
    LET r == StorageRemove(m, session_key)
    IN  [store |-> r.store, cmds |-> <<<<"remove", session_key>>>>, result |-> OkUnit]

\* The calls a client may issue on the storage-backed store: save and update
\* take no TTL.
StorageCallsOn(ks) ==
    { [op |-> o, key |-> k, state |-> EmptyState, ttl |-> 0, conc |-> FALSE] : o \in KeyOps, k \in ks }
      \cup
    { [op |-> o, key |-> k, state |-> st, ttl |-> 0, conc |-> FALSE] :
        o \in SessionOps, k \in ks, st \in States }

SsLoad(c) ==
    /\ Pending(c, "load")
    /\ LET r == SessionStoreLoad(mem, call[c].key)
       IN  /\ mem' = r.store
           /\ Completed(c, r.result, mem[call[c].key].live)
    /\ UNCHANGED <<db, written>>

SsSave(c) ==
    /\ Pending(c, "save")
    /\ LET r == SessionStoreSave(mem, CallSession(c))
       IN  /\ mem' = r.store
           /\ Completed(c, r.result, mem[call[c].key].live)
    /\ UNCHANGED <<db, written>>

SsUpdate(c) ==
    /\ Pending(c, "update")
    /\ LET r == SessionStoreUpdate(mem, CallSession(c))
       IN  /\ mem' = r.store
           /\ Completed(c, r.result, mem[call[c].key].live)
    /\ UNCHANGED <<db, written>>

SsDestroy(c) ==
    /\ Pending(c, "destroy")
    /\ LET r == SessionStoreDestroy(mem, call[c].key)
       IN  /\ mem' = r.store
           /\ Completed(c, r.result, mem[call[c].key].live)
    /\ UNCHANGED <<db, written>>

SsExists(c) ==
    /\ Pending(c, "exists")
    /\ mem' = mem
    /\ Completed(c, OkBool(StorageExists(mem, call[c].key)), mem[call[c].key].live)
    /\ UNCHANGED <<db, written>>

NextStorage ==
    \/ \E c \in Clients : Request(c, StorageCallsOn(Keys))
    \/ \E c \in Clients : SsLoad(c)
    \/ \E c \in Clients : SsSave(c)
    \/ \E c \in Clients : SsUpdate(c)
    \/ \E c \in Clients : SsDestroy(c)
    \/ \E c \in Clients : SsExists(c)

SpecStorage == Init /\ [][NextStorage]_vars

\* ============================================================== claims
Done(c, op) == status[c] = "done" /\ call[c].op = op

\* The call of c is the one the backend executed most recently, and no time
\* has passed since.
JustDone(c, op) == Done(c, op) /\ last = c

\* What load and exists return in the current state of the backend.
LoadNow(key) == StoreLoad(db, key).result
ExistsNow(key) == StoreExists(db, key).result

\* C1. Double-create fails: a save executed on a key that has a live record
\* returns an error.
C1_DoubleCreateFails ==
    \A c \in Clients :
        (Done(c, "save") /\ res[c].pre) => IsErr(res[c].val)

\* C2. Create-only write: a save executed on a key that has a live record
\* leaves the record as it was, in the backend and in the storage.
C2_CreateOnlyWrite ==
    [][\A c \in Clients :
          (Pending(c, "save") /\ status'[c] = "done") =>
             /\ db[call[c].key].live => db'[call[c].key] = db[call[c].key]
             /\ mem[call[c].key].live => mem'[call[c].key] = mem[call[c].key]]_vars

\* C3. Create race: of two saves in flight at the same time on a key with no
\* record, the one executed first returns Ok, the other returns an error, and
\* the stored value is the one the first wrote.
C3_CreateRace ==
    \A c, d \in Clients :
        ( /\ c # d
          /\ Done(c, "save") /\ JustDone(d, "save")
          /\ call[c].key = call[d].key
          /\ call[c].conc /\ call[d].conc
          /\ ~res[c].pre /\ res[d].pre )
        => /\ IsOk(res[c].val)
           /\ IsErr(res[d].val)
           /\ db[call[c].key].live
           /\ FromJson(db[call[c].key].value) = call[c].state

\* C4. Update-without-create fails: an update executed on a key with no live
\* record returns the target-absent error.
TargetAbsent(result) == result \in {Err(UpdateNil), Err(UpdateError)}
C5_NoPartialUpdate ==
    \A c \in Clients :
        (JustDone(c, "update") /\ ~res[c].pre /\ IsErr(res[c].val)) =>
            /\ ~StorageExists(mem, call[c].key)
            /\ SessionStoreLoad(mem, call[c].key).result = OkNone

\* C6. Create-then-load: right after a save has returned Ok, load of the key
\* returns the session with that key and the saved fields.
C6_CreateThenLoad ==
    \A c \in Clients :
        (JustDone(c, "save") /\ IsOk(res[c].val)) =>
            LoadNow(call[c].key) = OkSome(SessionNew(call[c].key, call[c].state))

\* C7. Update overwrites: right after an update has returned Ok, load of the
\* key returns the updated fields.
C7_UpdateOverwrites ==
    \A c \in Clients :
        (JustDone(c, "update") /\ IsOk(res[c].val)) =>
            LoadNow(call[c].key) = OkSome(SessionNew(call[c].key, call[c].state))
C7_Witness ==
    \E c, d \in Clients :
        /\ JustDone(c, "update") /\ IsOk(res[c].val)
        /\ Done(d, "save") /\ IsOk(res[d].val) /\ ~res[d].pre
        /\ call[d].key = call[c].key
        /\ call[d].state # call[c].state
        /\ LoadNow(call[c].key) = OkSome(SessionNew(call[c].key, call[c].state))

\* C8. Exists reflects store state: exists returns true exactly when a live
\* record is stored under the key; a completed exists returned whether the
\* key had a record; exists is true right after a save that returned Ok and
\* false right after a destroy.
C8_ExistsReflects ==
    /\ \A k \in Keys : ExistsNow(k) = OkBool(db[k].live)
    /\ \A c \in Clients :
          /\ Done(c, "exists") => res[c].val = OkBool(res[c].pre)
          /\ (JustDone(c, "save") /\ IsOk(res[c].val)) => ExistsNow(call[c].key) = OkBool(TRUE)
          /\ JustDone(c, "destroy") => ExistsNow(call[c].key) = OkBool(FALSE)
C8_Witness ==
    \E c, d \in Clients :
        /\ Done(c, "exists") /\ res[c].val = OkBool(TRUE)
        /\ JustDone(d, "destroy") /\ res[d].pre
        /\ call[d].key = call[c].key
        /\ ExistsNow(call[c].key) = OkBool(FALSE)

\* C9. Destroy is idempotent: destroy returns Ok whether or not the key has a
\* record, and right after it exists is false and load returns None.
C9_DestroyIdempotent ==
    \A c \in Clients :
        /\ Done(c, "destroy") => res[c].val = OkUnit
        /\ JustDone(c, "destroy") =>
              /\ ExistsNow(call[c].key) = OkBool(FALSE)
              /\ LoadNow(call[c].key) = OkNone
C9_Witness ==
    \E c \in Clients :
        /\ JustDone(c, "destroy") /\ ~res[c].pre /\ res[c].val = OkUnit
        /\ LoadNow(call[c].key) = OkNone
\* The same of the storage-backed destroy (the one SessionModel::destroy
\* dispatches), under SpecStorage.
StorageDestroyIdempotent ==
    \A c \in Clients :
        /\ Done(c, "destroy") => res[c].val = OkUnit
        /\ JustDone(c, "destroy") =>
              /\ ~StorageExists(mem, call[c].key)
              /\ SessionStoreLoad(mem, call[c].key).result = OkNone

\* C10. TTL expiry: once more than the TTL of the latest write to a key has
\* elapsed, with no update or re-creation since, the record is absent: load
\* returns None and exists returns false.
Elapsed(k) == written[k].age * SubPerSec
C10_TtlExpiry ==
    \A k \in Keys :
        (written[k].set /\ Elapsed(k) > written[k].ttl) =>
            /\ LoadNow(k) = OkNone
            /\ ExistsNow(k) = OkBool(FALSE)
C10_Witness ==
    \E k \in Keys :
        /\ written[k].set /\ Elapsed(k) > written[k].ttl
        /\ written[k].ttl % SubPerSec # 0
        /\ LoadNow(k) = OkNone

\* C11 (as claimed). Update refreshes TTL: right after an update has returned
\* Ok, the record's remaining time-to-live is the TTL the update was given.
C11_UpdateResetsToTtl ==
    \A c \in Clients :
        (JustDone(c, "update") /\ IsOk(res[c].val)) =>
            db[call[c].key].ttl * SubPerSec = call[c].ttl

\* C11 (amended). Right after an update has returned Ok, the record's
\* remaining time-to-live is the whole seconds of the TTL the update was
\* given, whatever remained of the previous TTL.
C11_UpdateRefreshesTtl ==
    \A c \in Clients :
        (JustDone(c, "update") /\ IsOk(res[c].val)) =>
            /\ db[call[c].key].live
            /\ db[call[c].key].ttl = AsSecs(call[c].ttl)
            /\ written[call[c].key] = [set |-> TRUE, ttl |-> call[c].ttl, age |-> 0]
C11_Witness ==
    \E c, d \in Clients :
        /\ JustDone(c, "update") /\ IsOk(res[c].val)
        /\ Done(d, "save") /\ ~res[d].pre /\ call[d].key = call[c].key
        /\ AsSecs(call[d].ttl) < AsSecs(call[c].ttl)
        /\ db[call[c].key].ttl = AsSecs(call[c].ttl)

\* ------------------------------------- SessionModel (session_model.rs)
\* SessionStore::ttl: the storage's answer passed on. The storage's ttl is
\* the Store's: the TTL command, its integer reply taken as a u64 of seconds.
SessionStoreTtl(m, session_key) ==
    LET ttl == StoreTtl(m, session_key)
    IN  [store |-> ttl.store, cmds |-> ttl.cmds, ok |-> ttl.ok, duration |-> ttl.duration]

ModelId == "model"
\* The fields and values the model's owner inserts.
ModelInserts ==
    { <<"user_id", StringValue("beavis")>>, <<"flag", U64Value(0)>> }
\* The state another client writes.
OtherStates == { ("user_id" :> SerdeToString(StringValue("butt-head"))) }

\* The model's latest call was op and has returned; and no other client's
\* write and no time has come since.
Returned(op) == pc \in {"none", "idle"} /\ ret.op = op
JustReturned(op) == Returned(op) /\ last = ModelId

\* A step of the model's own: it alone touches the model's variables.
ModelStep == last' = ModelId /\ UNCHANGED <<mem, status, call, res, written, held, keygen>>

\* SessionModel::new(store, duration): a model of a default Session, whose
\* key is freshly generated.
ModelNew(d, k) ==
    /\ pc \in {"none", "idle"}
    /\ sess' = SessionNew(k, EmptyState)
    /\ duration' = DurationOf(d)
    /\ origin' = "new"
    /\ pc' = "idle"
    /\ frame' = NoFrame
    /\ ret' = [NoRet EXCEPT !.op = "new", !.val = OkUnit]
    /\ sent' = << >>
    /\ ModelStep
    /\ UNCHANGED <<db, acc>>

\* SessionModel::load, first round trip: store.load(id)?
ModelLoadGet(k) ==
    /\ pc \in {"none", "idle"}
    /\ LET r == SessionStoreLoad(db, k)
       IN  /\ db' = r.store
           /\ frame' = [NoFrame EXCEPT !.key = k, !.loaded = r.result, !.seen = db[k]]
           /\ sent' = <<[op |-> "load", key |-> k]>>
           /\ IF IsErr(r.result)
                THEN /\ pc' = "none"
                     /\ ret' = [NoRet EXCEPT !.op = "load", !.val = r.result]
                ELSE /\ pc' = "load_ttl"
                     /\ ret' = NoRet
    /\ sess' = NoSession
    /\ duration' = DurationOf(0)
    /\ origin' = "none"
    /\ ModelStep
    /\ UNCHANGED acc

\* SessionModel::load, second round trip: store.ttl(id)?, then the model
\* made of the session loaded, if there was one.
ModelLoadTtl ==
    /\ pc = "load_ttl"
    /\ LET r == SessionStoreTtl(db, frame.key)
           found == r.ok /\ frame.loaded.tag = "ok_some"
       IN  /\ db' = r.store
           /\ sent' = Append(sent, [op |-> "ttl", key |-> frame.key])
           /\ ret' = [NoRet EXCEPT !.op = "load",
                                   !.val = IF r.ok THEN frame.loaded ELSE Err(QueryError),
                                   !.seen = frame.seen]
           /\ sess' = IF found THEN frame.loaded.session ELSE NoSession
           /\ duration' = IF found THEN r.duration ELSE DurationOf(0)
           /\ origin' = IF found THEN "load" ELSE "none"
           /\ pc' = IF found THEN "idle" ELSE "none"
    /\ frame' = NoFrame
    /\ ModelStep
    /\ UNCHANGED acc

\* SessionModel::save, first round trip: the probe store.exists(id)?
ModelSaveProbe ==
    /\ pc = "idle"
    /\ frame' = [NoFrame EXCEPT !.key = sess.id, !.exists = StorageExists(db, sess.id)]
    /\ sent' = <<[op |-> "exists", key |-> sess.id]>>
    /\ pc' = "save_write"
    /\ ret' = [NoRet EXCEPT !.after = IF JustReturned("destroy") /\ IsOk(ret.val)
                                             THEN "destroy" ELSE ""]
    /\ ModelStep
    /\ UNCHANGED <<db, sess, duration, origin, acc>>

\* The write SessionModel::save chooses by its probe.
\* (as a bug would have it: the branches taken the wrong way round)
SaveDispatchSwapped(exists) == IF exists THEN "save" ELSE "update"
SaveDispatch(exists) == IF exists THEN "update" ELSE "save"

\* SessionModel::save, second round trip: store.update(&session)? or
\* store.save(&session)?
ModelSaveWrite ==
    /\ pc = "save_write"
    /\ LET op == SaveDispatch(frame.exists)
           r == IF op = "update" THEN SessionStoreUpdate(db, sess)
                                 ELSE SessionStoreSave(db, sess)
       IN  /\ db' = r.store
           /\ sent' = Append(sent, [op |-> op, key |-> sess.id])
           /\ ret' = [NoRet EXCEPT !.op = "save", !.val = r.result,
                                   !.probe = frame.exists, !.before = db[sess.id],
                                   !.touched = {k \in Keys : r.store[k] # db[k]},
                                   !.failed = IF IsErr(r.result) THEN Len(sent) + 1 ELSE 0,
                                   !.cause = r.result.err,
                                   !.after = ret.after]
    /\ pc' = "idle"
    /\ frame' = NoFrame
    /\ ModelStep
    /\ UNCHANGED <<sess, duration, origin, acc>>

\* SessionModel::destroy
\* (as a bug would have it: the record probed for before it is destroyed)
ModelDestroyProbing ==
    /\ pc = "idle"
    /\ LET r == SessionStoreDestroy(db, sess.id)
       IN  /\ db' = r.store
           /\ ret' = [NoRet EXCEPT !.op = "destroy", !.val = r.result,
                                   !.before = db[sess.id],
                                   !.touched = {k \in Keys : r.store[k] # db[k]}]
    /\ sent' = <<[op |-> "exists", key |-> sess.id], [op |-> "destroy", key |-> sess.id]>>
    /\ ModelStep
    /\ UNCHANGED <<sess, duration, origin, pc, frame, acc>>
\* (as a bug would have it: the model gone with the record)
ModelDestroyTerminal ==
    /\ pc = "idle"
    /\ LET r == SessionStoreDestroy(db, sess.id)
       IN  /\ db' = r.store
           /\ ret' = [NoRet EXCEPT !.op = "destroy", !.val = r.result,
                                   !.before = db[sess.id],
                                   !.touched = {k \in Keys : r.store[k] # db[k]}]
    /\ sent' = <<[op |-> "destroy", key |-> sess.id]>>
    /\ pc' = "none"
    /\ ModelStep
    /\ UNCHANGED <<sess, duration, origin, frame, acc>>
ModelDestroy ==
    /\ pc = "idle"
    /\ LET r == SessionStoreDestroy(db, sess.id)
       IN  /\ db' = r.store
           /\ ret' = [NoRet EXCEPT !.op = "destroy", !.val = r.result,
                                   !.before = db[sess.id],
                                   !.touched = {k \in Keys : r.store[k] # db[k]}]
    /\ sent' = <<[op |-> "destroy", key |-> sess.id]>>
    /\ ModelStep
    /\ UNCHANGED <<sess, duration, origin, pc, frame, acc>>

\* SessionModel::insert
\* (as a bug would have it: the changed session written through to the store)
ModelInsertWriteThrough(key, value) ==
    /\ pc = "idle"
    /\ LET r == SessionInsert(sess, key, value)
       IN  /\ sess' = r.session
           /\ db' = SessionStoreSave(db, r.session).store
           /\ acc' = [op |-> "insert", field |-> key, type |-> value.type,
                      given |-> value, result |-> r.result]
    /\ ret' = [NoRet EXCEPT !.op = "insert"]
    /\ sent' = << >>
    /\ ModelStep
    /\ UNCHANGED <<duration, origin, pc, frame>>
ModelInsert(key, value) ==
    /\ pc = "idle"
    /\ LET r == SessionInsert(sess, key, value)
       IN  /\ sess' = r.session
           /\ acc' = [op |-> "insert", field |-> key, type |-> value.type,
                      given |-> value, result |-> r.result]
    /\ ret' = [NoRet EXCEPT !.op = "insert"]
    /\ sent' = << >>
    /\ ModelStep
    /\ UNCHANGED <<db, duration, origin, pc, frame>>

\* SessionModel::remove
ModelRemove(key, type) ==
    /\ pc = "idle"
    /\ LET r == SessionRemove(sess, key, type)
       IN  /\ sess' = r.session
           /\ acc' = [op |-> "remove", field |-> key, type |-> type,
                      given |-> NoValue, result |-> r.result]
    /\ ret' = [NoRet EXCEPT !.op = "remove"]
    /\ sent' = << >>
    /\ ModelStep
    /\ UNCHANGED <<db, duration, origin, pc, frame>>

\* SessionModel::get
ModelGet(key, type) ==
    /\ pc = "idle"
    /\ LET r == SessionGet(sess, key, type)
       IN  /\ sess' = r.session
           /\ acc' = [op |-> "get", field |-> key, type |-> type,
                      given |-> NoValue, result |-> r.result]
    /\ ret' = [NoRet EXCEPT !.op = "get"]
    /\ sent' = << >>
    /\ ModelStep
    /\ UNCHANGED <<db, duration, origin, pc, frame>>

\* Another client of the same backend, a user of the Store, writes the key:
\* its call executes between two round trips of the model's.
OtherStep == last' = NoClient /\ UNCHANGED <<mem, status, call, res, written>> /\ UNCHANGED mvars
OtherSave(k, state, ttl) ==
    /\ db' = StoreSave(db, SessionNew(k, state), ttl).store
    /\ OtherStep
OtherUpdate(k, state, ttl) ==
    /\ db' = StoreUpdate(db, SessionNew(k, state), ttl).store
    /\ OtherStep
OtherDestroy(k) ==
    /\ db' = StoreDestroy(db, k).store
    /\ OtherStep

NextModel ==
    \/ \E d \in TtlChoices, k \in Keys : ModelNew(d, k)
    \/ \E k \in Keys : ModelLoadGet(k)
    \/ ModelLoadTtl
    \/ ModelSaveProbe
    \/ ModelSaveWrite
    \/ ModelDestroy
    \/ \E iv \in ModelInserts : ModelInsert(iv[1], iv[2])
    \/ \E iv \in ModelInserts : ModelRemove(iv[1], iv[2].type)
    \/ \E iv \in ModelInserts : ModelGet(iv[1], iv[2].type)
    \/ \E k \in SharedKeys, st \in OtherStates, t \in TtlChoices : OtherSave(k, st, t)
    \/ \E k \in SharedKeys, st \in OtherStates, t \in TtlChoices : OtherUpdate(k, st, t)
    \/ \E k \in SharedKeys : OtherDestroy(k)
    \/ Tick

SpecModel == Init /\ [][NextModel]_vars

\* ------------------------------------------------ claims on SessionModel

\* C12. SessionModel.save dispatches its exists probe and then exactly one
\* write, chosen by what the probe returned: update when it returned true,
\* save when it returned false; both name the model's id, and no record of
\* another key changes. Before the probe has returned no write is dispatched.
C12_SaveDispatchesOneWrite ==
    /\ pc = "save_write" => sent = <<[op |-> "exists", key |-> sess.id]>>
    /\ Returned("save") =>
          /\ sent = <<[op |-> "exists", key |-> sess.id],
                      [op |-> IF ret.probe THEN "update" ELSE "save", key |-> sess.id]>>
          /\ ret.touched \subseteq {sess.id}
C12_Witness ==
    /\ Returned("save") /\ ret.probe
    /\ sent[2] = [op |-> "update", key |-> sess.id]
    /\ ret.touched = {sess.id}

C13_WitnessFirstSave ==
    /\ JustReturned("save") /\ IsOk(ret.val)
    /\ ~ret.probe /\ ~ret.before.live
    /\ sess.state # EmptyState

\* C14. TTL propagation: right after a save of a model made by
\* SessionModel::new(store, d) has returned Ok, on the create path and on the
\* update path, the record of the model's id has the time-to-live d (its
\* whole seconds, as the store counts them).
C14_TtlPropagation ==
    (JustReturned("save") /\ IsOk(ret.val) /\ origin = "new") =>
        /\ db[sess.id].live
        /\ db[sess.id].ttl = AsSecs(duration.units)

C16_LoadCarriesTtl ==
    (Returned("load") /\ ret.val.tag = "ok_some" /\ ret.seen.ttl # NoExpiry) =>
        duration = DurationOf(ret.seen.ttl * SubPerSec)

\* C17. Conflicts are surfaced, not merged: when another client has created
\* the record of the model's key after the probe of SessionModel.save
\* returned false and before the model's create executed, save returns an
\* error and the other client's record is left as it was.
C17_ConflictSurfaced ==
    (JustReturned("save") /\ ~ret.probe /\ ret.before.live) =>
        /\ IsErr(ret.val)
        /\ db[sess.id] = ret.before

\* C18. Persistence is explicit: a SessionModel insert, remove or get leaves
\* the store as it is, dispatches no store operation and keeps the model's
\* key and duration; and a step of the model changes a stored record only
\* when it is a save or a destroy (every other change of a record is another
\* client's write or expiry).
AccessorOps == {"insert", "remove", "get"}
C18_PersistenceExplicit ==
    [][ /\ (last' = ModelId /\ ret'.op \in AccessorOps) =>
              /\ db' = db
              /\ sent' = << >>
              /\ sess'.id = sess.id
              /\ duration' = duration
        /\ (last' = ModelId /\ db' # db) => ret'.op \in {"save", "destroy"}
      ]_vars
C18_Witness ==
    /\ JustReturned("insert")
    /\ acc.op = "insert" /\ acc.result = AccUnit
    /\ db[sess.id].live
    /\ sess.state # FromJson(db[sess.id].value)
    /\ sent = << >>

\* Every store operation, of the Store and of the storage-backed
\* SessionStore, has the backend execute exactly one command, whatever the
\* records are.
OneCommandEach ==
    \A k \in Keys :
        /\ Len(StoreLoad(db, k).cmds) = 1
        /\ Len(StoreDestroy(db, k).cmds) = 1
        /\ Len(StoreExists(db, k).cmds) = 1
        /\ Len(StoreTtl(db, k).cmds) = 1
        /\ Len(SessionStoreLoad(db, k).cmds) = 1
        /\ Len(SessionStoreDestroy(db, k).cmds) = 1
        /\ Len(SessionStoreTtl(db, k).cmds) = 1
        /\ \A st \in States, t \in TtlChoices :
              /\ Len(StoreSave(db, SessionNew(k, st), t).cmds) = 1
              /\ Len(StoreUpdate(db, SessionNew(k, st), t).cmds) = 1
              /\ Len(SessionStoreSave(db, SessionNew(k, st)).cmds) = 1
              /\ Len(SessionStoreUpdate(db, SessionNew(k, st)).cmds) = 1
ModelOps == {"new", "load", "save", "destroy", "insert", "remove", "get"}

SessionStep ==
    /\ UNCHANGED <<db, mem, status, call, res, last, written>>
    /\ UNCHANGED <<duration, origin, pc, frame, ret, sent, keygen>>

\* Session::default(): an empty session under a freshly generated key.
SessionDefault(k) ==
    /\ sess' = SessionNew(k, EmptyState)
    /\ acc' = NoAccess
    /\ held' = [f \in Fields |-> NoValue]
    /\ SessionStep

\* session.insert(key, value)
InsertField(key, value) ==
    /\ sess.id \in Keys
    /\ LET r == SessionInsert(sess, key, value)
       IN  /\ sess' = r.session
           /\ acc' = [op |-> "insert", field |-> key, type |-> value.type,
                      given |-> value, result |-> r.result]
    /\ held' = [held EXCEPT ![key] = value]
    /\ SessionStep

\* session.remove::<T>(key)
RemoveField(key, type) ==
    /\ sess.id \in Keys
    /\ LET r == SessionRemove(sess, key, type)
       IN  /\ sess' = r.session
           /\ acc' = [op |-> "remove", field |-> key, type |-> type,
                      given |-> NoValue, result |-> r.result]
    /\ held' = [held EXCEPT ![key] = NoValue]
    /\ SessionStep

\* session.get::<T>(key)
GetField(key, type) ==
    /\ sess.id \in Keys
    /\ LET r == SessionGet(sess, key, type)
       IN  /\ sess' = r.session
           /\ acc' = [op |-> "get", field |-> key, type |-> type,
                      given |-> NoValue, result |-> r.result]
    /\ UNCHANGED held
    /\ SessionStep

NextSession ==
    \/ \E k \in Keys : SessionDefault(k)
    \/ \E f \in Fields, v \in Values : InsertField(f, v)
    \/ \E f \in Fields, t \in Types : RemoveField(f, t)
    \/ \E f \in Fields, t \in Types : GetField(f, t)

SpecSession == Init /\ [][NextSession]_vars

AccessorCall(op) == acc'.op = op /\ <<sess, acc, held>>' # <<sess, acc, held>>

\* C21. Remove deletes the field: a remove(f) with the type of the value v
\* last inserted into f returns Some(v); a remove of a field that is not
\* present returns None; and after every remove(f), get(f) returns None for
\* every type.
C21_RemoveDeletes ==
    [][ AccessorCall("remove") =>
          LET f == acc'.field
          IN  /\ (held[f] # NoValue /\ acc'.type = held[f].type) =>
                     acc'.result = AccSome(held[f])
              /\ ~StateContainsKey(sess.state, f) => acc'.result = AccNone
              /\ ~StateContainsKey(sess'.state, f)
              /\ \A t \in Types : SessionGet(sess', f, t).result = AccNone
      ]_vars
C21_Witness ==
    /\ acc.op = "remove" /\ acc.field = "user_id" /\ acc.type = "String"
    /\ acc.result = AccSome(StringValue("beavis"))
    /\ ~StateContainsKey(sess.state, "user_id")
    /\ held["flag"] # NoValue

\* C22. Key immutability: no step but the making of a model (new, load)
\* changes the key of the model's Session: insert, remove, get, save and
\* destroy keep it; and a session that load(k) returns, of the model or of
\* either store, has the id k.
C22_KeyImmutable ==
    [][ /\ (ret'.op \notin {"new", "load"} /\ pc' # "load_ttl") => sess'.id = sess.id
        /\ (ret'.op = "load" /\ ret'.val.tag = "ok_some" /\ pc = "load_ttl") =>
              /\ sess'.id = frame.key
              /\ ret'.val.session.id = frame.key
        /\ \A k \in Keys :
              /\ StoreLoad(db', k).result.tag = "ok_some" =>
                    StoreLoad(db', k).result.session.id = k
              /\ SessionStoreLoad(db', k).result.tag = "ok_some" =>
                    SessionStoreLoad(db', k).result.session.id = k
      ]_vars
C22_Witness ==
    /\ origin = "load" /\ Returned("destroy")
    /\ sess.id = "k1" /\ sess.state # EmptyState
    /\ ~db["k1"].live

\* C23. An insert of a value of type T into a field that already holds a
\* text that does not decode as T fails with a deserialization error.
C23_InsertOverMismatchFails ==
    [][ AccessorCall("insert") =>
          LET f == acc'.field
          IN  (StateContainsKey(sess.state, f)
                 /\ ~SerdeFromStr(acc'.type, StateGet(sess.state, f)).ok) =>
                  acc'.result.tag = "err"
      ]_vars

\* C24. Insert returns the previous value: an insert into a field returns
\* the value the field held before (None when the field was absent).
C24_InsertReturnsPrevious ==
    [][ AccessorCall("insert") =>
          LET f == acc'.field
          IN  /\ ~StateContainsKey(sess.state, f) => acc'.result = AccNone
              /\ (held[f] # NoValue /\ acc'.type = held[f].type) =>
                     acc'.result = AccSome(held[f])
      ]_vars

\* C25. A type-mismatched get is per-field and harmless: a get of a field
\* whose text does not decode as the type asked for returns the deserialize
\* error of get naming the field; every get leaves the whole state as it was,
\* so that afterwards a get of any field with the type of the value it holds
\* returns that value.
C25_MismatchedGetHarmless ==
    [][ AccessorCall("get") =>
          LET f == acc'.field
          IN  /\ (StateContainsKey(sess.state, f)
                    /\ ~SerdeFromStr(acc'.type, StateGet(sess.state, f)).ok) =>
                     acc'.result = AccErr(GetDeserializeError, f)
              /\ sess' = sess
              /\ \A g \in Fields :
                    held[g] # NoValue =>
                        SessionGet(sess', g, held[g].type).result = AccSome(held[g])
      ]_vars
C25_Witness ==
    /\ acc.op = "get" /\ acc.field = "user_id" /\ acc.type = "u64"
    /\ acc.result = AccErr(GetDeserializeError, "user_id")
    /\ held["user_id"] = UserValue("brandon", "hunter2")
    /\ held["flag"] = StringValue("beavis")
    /\ StateGet(sess.state, "user_id") = SerdeToString(held["user_id"])

\* C26. Protocol mapping: each Command converts to the wire command of the
\* table (Get: GET key; Set: SET key value NX EX secs; Update: SET key value
\* XX EX secs; Delete: DEL key; Exists: EXISTS key; TTL: TTL key), the key and
\* the value those of the Command and secs the decimal text of the whole
\* seconds of its ttl; and load, save, update, destroy, exists and ttl issue
\* the conversion of Get, Set, Update, Delete, Exists and TTL of the record
\* key, the session's body and the timeout.
WireSet(key, value, flag, ttl, cmd) ==
    /\ Len(cmd) = 6
    /\ <<cmd[1], cmd[2], cmd[3], cmd[4], cmd[5]>> = <<"SET", key, value, flag, "EX">>
    /\ IsDigits(cmd[6])
    /\ ParseInt(cmd[6]) * SubPerSec <= ttl
    /\ ttl < (ParseInt(cmd[6]) + 1) * SubPerSec
C26_ProtocolMapping ==
    \A k \in Keys :
        /\ ToCmd(CommandGet(k)) = <<"GET", k>>
        /\ ToCmd(CommandDelete(k)) = <<"DEL", k>>
        /\ ToCmd(CommandExists(k)) = <<"EXISTS", k>>
        /\ ToCmd(CommandTtl(k)) = <<"TTL", k>>
        /\ StoreLoad(db, k).cmds = <<<<"GET", KeyGen(k)>>>>
        /\ StoreDestroy(db, k).cmds = <<<<"DEL", KeyGen(k)>>>>
        /\ StoreExists(db, k).cmds = <<<<"EXISTS", KeyGen(k)>>>>
        /\ StoreTtl(db, k).cmds = <<<<"TTL", KeyGen(k)>>>>
        /\ \A st \in States, t \in TtlChoices :
              LET body == ToJson(st)
                  save == StoreSave(db, SessionNew(k, st), t).cmds
                  update == StoreUpdate(db, SessionNew(k, st), t).cmds
              IN  /\ WireSet(k, body, "NX", t, ToCmd(CommandSet(k, body, t)))
                  /\ WireSet(k, body, "XX", t, ToCmd(CommandUpdate(k, body, t)))
                  /\ Len(save) = 1 /\ WireSet(KeyGen(k), body, "NX", t, save[1])
                  /\ Len(update) = 1 /\ WireSet(KeyGen(k), body, "XX", t, update[1])
C26_Witness ==
    \E c \in Clients :
        /\ JustDone(c, "update") /\ IsOk(res[c].val)
        /\ call[c].ttl = MaxTtlSecs * SubPerSec + 1
        /\ StoreUpdate(db, CallSession(c), call[c].ttl).cmds
             = << <<"SET", call[c].key, ToJson(call[c].state), "XX", "EX",
                    FormatInt(MaxTtlSecs)>> >>
        /\ db[call[c].key] = Rec(ToJson(call[c].state), MaxTtlSecs)

\* C27. Last writer wins, the whole record replaced: when two clients have
\* each completed a successful update of the same key, right after the later
\* one the stored field map is exactly the field map of that update; a field
\* that only the earlier update had is not retained.
C27_LastWriterWins ==
    \A c, d \in Clients :
        (/\ c # d
         /\ JustDone(c, "update") /\ IsOk(res[c].val)
         /\ Done(d, "update") /\ IsOk(res[d].val)
         /\ call[c].key = call[d].key) =>
            /\ LoadNow(call[c].key) = OkSome(SessionNew(call[c].key, call[c].state))
            /\ \A f \in DOMAIN call[d].state \ DOMAIN call[c].state :
                  \A i \in DOMAIN db[call[c].key].value : db[call[c].key].value[i][1] # f
C27_Witness ==
    \E c, d \in Clients :
        /\ c # d
        /\ JustDone(c, "update") /\ IsOk(res[c].val)
        /\ Done(d, "update") /\ IsOk(res[d].val)
        /\ call[c].key = call[d].key
        /\ call[c].conc /\ call[d].conc
        /\ call[d].state # EmptyState /\ call[c].state = EmptyState
        /\ db[call[c].key].value = ToJson(EmptyState)

\* ------------------------------- SessionModel over a store that may fail
\* StoreError::StorageError: the storage could not carry out the call (the
\* connection or the query failed); the records are as they were.
StorageFailure == "StorageError"
Failed(op, n) ==
    [NoRet EXCEPT !.op = op, !.val = Err(StorageFailure), !.failed = n,
                  !.cause = StorageFailure]

\* SessionModel::load, store.load(id)? failing: the error is returned.
ModelLoadGetFails(k) ==
    /\ pc \in {"none", "idle"}
    /\ sent' = <<[op |-> "load", key |-> k]>>
    /\ ret' = Failed("load", 1)
    /\ pc' = "none"
    /\ sess' = NoSession
    /\ duration' = DurationOf(0)
    /\ origin' = "none"
    /\ frame' = NoFrame
    /\ ModelStep
    /\ UNCHANGED <<db, acc>>

\* SessionModel::load, store.ttl(id)? failing: the error is returned and the
\* session loaded is dropped.
ModelLoadTtlFails ==
    /\ pc = "load_ttl"
    /\ sent' = Append(sent, [op |-> "ttl", key |-> frame.key])
    /\ ret' = [Failed("load", 2) EXCEPT !.seen = frame.seen]
    /\ pc' = "none"
    /\ sess' = NoSession
    /\ duration' = DurationOf(0)
    /\ origin' = "none"
    /\ frame' = NoFrame
    /\ ModelStep
    /\ UNCHANGED <<db, acc>>

\* SessionModel::save, store.exists(id)? failing: the error is returned.
\* (as a bug would have it: a failed probe taken for false and the create
\* dispatched)
ModelSaveProbeFailsThenSaves ==
    /\ pc = "idle"
    /\ db' = SessionStoreSave(db, sess).store
    /\ sent' = <<[op |-> "exists", key |-> sess.id], [op |-> "save", key |-> sess.id]>>
    /\ ret' = [Failed("save", 1) EXCEPT !.val = OkUnit]
    /\ ModelStep
    /\ UNCHANGED <<sess, duration, origin, pc, frame, acc>>
ModelSaveProbeFails ==
    /\ pc = "idle"
    /\ sent' = <<[op |-> "exists", key |-> sess.id]>>
    /\ ret' = Failed("save", 1)
    /\ ModelStep
    /\ UNCHANGED <<db, sess, duration, origin, pc, frame, acc>>

\* SessionModel::save, store.update(..)? or store.save(..)? failing.
ModelSaveWriteFails ==
    /\ pc = "save_write"
    /\ sent' = Append(sent, [op |-> SaveDispatch(frame.exists), key |-> sess.id])
    /\ ret' = [Failed("save", 2) EXCEPT !.probe = frame.exists, !.before = db[sess.id],
                                        !.after = ret.after]
    /\ pc' = "idle"
    /\ frame' = NoFrame
    /\ ModelStep
    /\ UNCHANGED <<db, sess, duration, origin, acc>>

\* SessionModel::destroy, store.destroy(id)? failing.
ModelDestroyFails ==
    /\ pc = "idle"
    /\ sent' = <<[op |-> "destroy", key |-> sess.id]>>
    /\ ret' = [Failed("destroy", 1) EXCEPT !.before = db[sess.id]]
    /\ ModelStep
    /\ UNCHANGED <<db, sess, duration, origin, pc, frame, acc>>

NextFaulty ==
    \/ \E d \in TtlChoices, k \in Keys : ModelNew(d, k)
    \/ \E k \in Keys : ModelLoadGet(k)
    \/ \E k \in Keys : ModelLoadGetFails(k)
    \/ ModelLoadTtl
    \/ ModelLoadTtlFails
    \/ ModelSaveProbe
    \/ ModelSaveProbeFails
    \/ ModelSaveWrite
    \/ ModelSaveWriteFails
    \/ ModelDestroy
    \/ ModelDestroyFails
    \/ \E iv \in ModelInserts : ModelInsert(iv[1], iv[2])
    \/ \E k \in SharedKeys, st \in OtherStates, t \in TtlChoices : OtherSave(k, st, t)
    \/ \E k \in SharedKeys : OtherDestroy(k)
    \/ Tick

SpecFaulty == Init /\ [][NextFaulty]_vars

\* C28. No retries, the error passed on as it is: when a store call of a
\* SessionModel load, save or destroy returns an error, the operation
\* returns that error and dispatches no further store call. A failed exists
\* probe of save is followed by no save and no update, a failed load of
\* SessionModel::load by no ttl, and no model is made of a failed load.
C28_ErrorsPropagate ==
    /\ \A op \in {"load", "save", "destroy"} :
          (Returned(op) /\ ret.failed > 0) =>
              /\ ret.val = Err(ret.cause)
              /\ Len(sent) = ret.failed
    /\ \A op \in {"load", "save", "destroy"} :
          (Returned(op) /\ IsErr(ret.val)) => ret.failed > 0
    /\ (Returned("save") /\ ret.failed = 1) =>
          sent = <<[op |-> "exists", key |-> sess.id]>>
    /\ (Returned("load") /\ ret.failed > 0) =>
          /\ sent[1].op = "load"
          /\ ret.failed = 2 => sent[2].op = "ttl"
          /\ pc = "none"
C28_Witness ==
    /\ Returned("save") /\ ret.failed = 1
    /\ ret.val = Err(StorageFailure)
    /\ sent = <<[op |-> "exists", key |-> "k1"]>>
    /\ db["k1"].live /\ FromJson(db["k1"].value) # sess.state

\* ------------------------------------------------- SessionKey::generate
KeyStep ==
    UNCHANGED <<db, mem, status, call, res, last, written,
                sess, duration, origin, pc, frame, ret, sent, acc, held>>

\* SessionKey::generate() entered, directly or through SessionKey::default()
\* or Session::default(); the entropy source is in any of its states.
KeyGenerateBegin(via, seed) ==
    /\ keygen.pc \in {"idle", "done"}
    /\ keygen' = [NoKeygen EXCEPT !.pc = "sampling", !.via = via, !.rng = seed]
    /\ KeyStep

\* One item of repeat(()).map(|()| OsRng.sample(Alphanumeric)).take(64).
KeyGenerateSample ==
    /\ keygen.pc = "sampling"
    /\ Len(keygen.value) < KeyLen
    /\ keygen' = [keygen EXCEPT !.value = Append(@, SampleAlphanumeric(keygen.rng)),
                                !.rng = OsRngNext(@)]
    /\ KeyStep

\* collect, String::from_utf8(value).unwrap(), Self(key)
KeyGenerateCollect ==
    /\ keygen.pc = "sampling"
    /\ Len(keygen.value) = KeyLen
    /\ keygen' = [keygen EXCEPT !.pc = "done",
                                !.key = SessionKeyOf(FromUtf8(keygen.value))]
    /\ KeyStep

\* key.to_string()
KeyToString ==
    /\ keygen.pc = "done"
    /\ keygen' = [keygen EXCEPT !.by = "to_string", !.shown = SessionKeyToString(keygen.key)]
    /\ KeyStep

\* key.as_ref()
KeyAsRef ==
    /\ keygen.pc = "done"
    /\ keygen' = [keygen EXCEPT !.by = "as_ref", !.shown = SessionKeyAsRef(keygen.key)]
    /\ KeyStep

KeyEntries == {"SessionKey::generate", "SessionKey::default", "Session::default"}
NextKey ==
    \/ \E via \in KeyEntries, seed \in 0..(RngStates - 1) : KeyGenerateBegin(via, seed)
    \/ KeyGenerateSample
    \/ KeyGenerateCollect
    \/ KeyToString
    \/ KeyAsRef

SpecKey == Init /\ [][NextKey]_vars

Uppercase == {"A", "B", "C", "D", "E", "F", "G", "H", "I", "J", "K", "L", "M",
              "N", "O", "P", "Q", "R", "S", "T", "U", "V", "W", "X", "Y", "Z"}
Lowercase == {"a", "b", "c", "d", "e", "f", "g", "h", "i", "j", "k", "l", "m",
              "n", "o", "p", "q", "r", "s", "t", "u", "v", "w", "x", "y", "z"}
Digits == {"0", "1", "2", "3", "4", "5", "6", "7", "8", "9"}

\* C29. A key made by SessionKey::generate, SessionKey::default or
\* Session::default has exactly 64 characters, each of A-Z, a-z, 0-9, and
\* to_string and as_ref render the key as that string of characters, with
\* nothing added, dropped or changed.
C29_GeneratedKey ==
    keygen.pc = "done" =>
        /\ keygen.via \in KeyEntries
        /\ Len(keygen.key.inner) = 64
        /\ \A i \in 1..Len(keygen.key.inner) :
              keygen.key.inner[i] \in Uppercase \cup Lowercase \cup Digits
        /\ keygen.by # "" => keygen.shown = keygen.key.inner
C29_Witness ==
    /\ keygen.pc = "done"
    /\ keygen.via = "Session::default"
    /\ keygen.by = "to_string"
    /\ Len(keygen.shown) = 64
    /\ \E i, j, l \in 1..Len(keygen.shown) :
          /\ keygen.shown[i] \in Uppercase
          /\ keygen.shown[j] \in Lowercase
          /\ keygen.shown[l] \in Digits

\* ------------------------------------ Store::update and the reply it gets
\* The Store against a backend that may answer an update with any value.
Replies ==
    {ReplyOkay, ReplyNil, ReplyInt(0), ReplyInt(1)} \cup {ReplyBulk(ToJson(st)) : st \in OtherStates}

UpdateAnyReply(c, reply) ==
    /\ Pending(c, "update")
    /\ LET k == call[c].key
           r == StoreUpdateReplied(db, CallSession(c), call[c].ttl, reply)
       IN  /\ db' = r.store
           /\ Replied(c, r.result, db[k].live, r.reply)
           /\ written' = IF db[k].live /\ r.store[k].live
                           THEN [written EXCEPT ![k] =
                                   [set |-> TRUE, ttl |-> call[c].ttl, age |-> 0]]
                           ELSE written
    /\ UNCHANGED mem

\* The one client that calls.
ReplyClients == {CHOOSE c \in Clients : TRUE}
NextReplies ==
    \/ \E c \in ReplyClients : Request(c, CallsOn(SharedKeys))
    \/ \E c \in ReplyClients : Load(c)
    \/ \E c \in ReplyClients : Save(c)
    \/ \E c \in ReplyClients : Update(c)
    \/ \E c \in ReplyClients, reply \in Replies : UpdateAnyReply(c, reply)
    \/ \E c \in ReplyClients : Destroy(c)
    \/ \E c \in ReplyClients : Exists(c)
    \/ Tick

SpecReplies == Init /\ [][NextReplies]_vars

\* C30. A Store update returns Ok(()) exactly when the reply to its SET XX is
\* OK; a nil reply gives BackendError("Update returned nil response data"),
\* every other reply BackendError("Update returned invalid response data").
C30_UpdateOkIffReplyOk ==
    \A c \in Clients :
        Done(c, "update") =>
            /\ res[c].reply # NoReply
            /\ IsOk(res[c].val) <=> res[c].reply = ReplyOkay
            /\ res[c].val = OkUnit <=> res[c].reply.kind = "okay"
            /\ res[c].val = Err(UpdateNil) <=> res[c].reply.kind = "nil"
            /\ res[c].val = Err(UpdateInvalid) <=> res[c].reply.kind \notin {"okay", "nil"}
C30_Witness ==
    \E c \in Clients :
        /\ Done(c, "update") /\ res[c].pre
        /\ res[c].reply.kind = "bulk" /\ res[c].val = Err(UpdateInvalid)

\* ------------------------------------- the Store's six calls, on every key
\* The ttl calls a client may issue on the keys ks.
TtlCallsOn(ks) ==
    { [op |-> "ttl", key |-> k, state |-> EmptyState, ttl |-> 0, conc |-> FALSE] : k \in ks }

Ttl(c) ==
    /\ Pending(c, "ttl")
    /\ LET r == StoreTtl(db, call[c].key)
       IN  /\ db' = r.store
           /\ Answered(c, IF r.ok THEN OkUnit ELSE Err(QueryError),
                       db[call[c].key].live, NoReply, r.duration)
    /\ UNCHANGED <<mem, written>>

NextKeys ==
    \/ \E c \in ReplyClients : Request(c, CallsOn(Keys) \cup TtlCallsOn(Keys))
    \/ \E c \in ReplyClients : Load(c)
    \/ \E c \in ReplyClients : Save(c)
    \/ \E c \in ReplyClients : Update(c)
    \/ \E c \in ReplyClients : Destroy(c)
    \/ \E c \in ReplyClients : Exists(c)
    \/ \E c \in ReplyClients : Ttl(c)
    \/ Tick

SpecKeys == Init /\ [][NextKeys]_vars

\* The wire commands of the store call in flight for client c.
CallCmds(c) ==
    LET k == call[c].key
        session == CallSession(c)
    IN  CASE call[c].op = "load" -> StoreLoad(db, k).cmds
          [] call[c].op = "save" -> StoreSave(db, session, call[c].ttl).cmds
          [] call[c].op = "update" -> StoreUpdate(db, session, call[c].ttl).cmds
          [] call[c].op = "destroy" -> StoreDestroy(db, k).cmds
          [] call[c].op = "exists" -> StoreExists(db, k).cmds
          [] call[c].op = "ttl" -> StoreTtl(db, k).cmds

\* C31. Record-key consistency: each of load, save, update, destroy, exists
\* and ttl on session key k sends one command, whose key is key_gen(k), the
\* raw string of k; the record of k is what the backend makes of it by that
\* command, and the record of every other session key is left as it was.
C31_RecordKey ==
    [][\A c \in Clients :
          (status[c] = "pending" /\ status'[c] = "done") =>
              LET k == call[c].key
                  cmds == CallCmds(c)
              IN  /\ call[c].op \in {"load", "save", "update", "destroy", "exists", "ttl"}
                  /\ Len(cmds) = 1
                  /\ cmds[1][2] = KeyGen(k) /\ KeyGen(k) = k
                  /\ db'[k] = RedisExecute(db, cmds[1]).store[k]
                  /\ \A j \in Keys \ {k} : db'[j] = db[j]]_vars
\* A destroy has removed the record of its key while the other key holds a
\* record of its own.
C31_Witness ==
    \E c \in Clients, j \in Keys :
        /\ JustDone(c, "destroy") /\ res[c].pre
        /\ j # call[c].key
        /\ db[j].live /\ ~db[call[c].key].live

\* ------------------------------- the Store and values it did not write
\* Texts that are no SessionState: {"user_id":1}, [] and the empty text.
MalformedBodies ==
    { << <<"user_id", <<"1">>, "number">> >>,
      << <<"user_id", <<"\"", "beavis", "\"">>>>, <<"flag", <<"true">>, "bool">> >>,
      << <<"", <<"[", "]">>, "array">> >>,
      << <<"", << >>, "empty">> >> }

\* Another program sets the key, to a text of its own, with no expiry.
ForeignSet(k, body) ==
    /\ db' = [db EXCEPT ![k] = Rec(body, NoExpiry)]
    /\ written' = [written EXCEPT ![k] = NoWrite]
    /\ last' = NoClient
    /\ UNCHANGED <<mem, status, call, res>>
    /\ UNCHANGED mvars

NextPayloads ==
    \/ \E c \in ReplyClients : Request(c, CallsOn(SharedKeys))
    \/ \E c \in ReplyClients : Load(c)
    \/ \E c \in ReplyClients : Save(c)
    \/ \E c \in ReplyClients : Update(c)
    \/ \E c \in ReplyClients : Destroy(c)
    \/ \E c \in ReplyClients : Exists(c)
    \/ \E k \in SharedKeys, body \in MalformedBodies : ForeignSet(k, body)
    \/ Tick

SpecPayloads == Init /\ [][NextPayloads]_vars

\* C32. Store load tells absent from malformed: it returns Ok(None) exactly
\* when the backend holds no value for the key; for a value that does not
\* decode as a field map it returns the SerializationError, for one that
\* does the session of exactly the fields stored; and it leaves the stored
\* value as it was.
C32_LoadAbsentOrMalformed ==
    [][\A c \in Clients :
          (Pending(c, "load") /\ status'[c] = "done") =>
              LET k == call[c].key
                  val == res'[c].val
              IN  /\ val = OkNone <=> ~db[k].live
                  /\ (db[k].live /\ ~JsonDecodes(db[k].value)) =>
                        val = Err(SerializationError)
                  /\ (db[k].live /\ JsonDecodes(db[k].value)) =>
                        /\ val = OkSome(SessionNew(k, FromJson(db[k].value)))
                        /\ ToJson(val.session.state) = db[k].value
                  /\ db' = db]_vars
\* A load has returned the error on a text that has one member well formed.
C32_Witness ==
    \E c \in Clients :
        /\ JustDone(c, "load") /\ res[c].val = Err(SerializationError)
        /\ db[call[c].key].live /\ Len(db[call[c].key].value) > 1

\* ------------------------------------------- Session: errors and frames
\* C33. No partial success on remove: a remove::<T>(f) that returns an error
\* (the text of f does not decode as T) leaves the session state as it was:
\* f is still present, with the text it had.
C33_RemoveErrorKeepsField ==
    [][ (AccessorCall("remove") /\ acc'.result.tag = "err") =>
          /\ sess'.state = sess.state
          /\ StateContainsKey(sess'.state, acc'.field)
          /\ StateGet(sess'.state, acc'.field) = StateGet(sess.state, acc'.field)
      ]_vars

\* C34. Field independence: an insert(f, v) or a remove(f) changes the entry
\* of f at most: every other field g is present after it exactly if it was
\* before, with the text it had; and a field is present exactly when it has
\* been inserted and not removed since.
C34_FieldIndependence ==
    [][ /\ (AccessorCall("insert") \/ AccessorCall("remove")) =>
              \A g \in Fields \ {acc'.field} :
                  /\ StateContainsKey(sess'.state, g) <=> StateContainsKey(sess.state, g)
                  /\ StateContainsKey(sess.state, g) =>
                        StateGet(sess'.state, g) = StateGet(sess.state, g)
        /\ \A f \in Fields : StateContainsKey(sess'.state, f) <=> held'[f] # NoValue
      ]_vars
\* The flag has been removed and the user id, inserted before, is in place.
C34_Witness ==
    /\ acc.op = "remove" /\ acc.field = "flag" /\ acc.result = AccSome(U64Value(0))
    /\ held["user_id"] = StringValue("beavis")
    /\ StateContainsKey(sess.state, "user_id")
    /\ StateGet(sess.state, "user_id") = SerdeToString(StringValue("beavis"))
    /\ ~StateContainsKey(sess.state, "flag")

\* ------------------------------------ SessionModel: records that vanish
\* C35. Vanished record on the update path: when the record of the model's
\* key expires or is destroyed after the probe of SessionModel.save returned
\* true and before the model's update executes, save returns an error and
\* the record is not created again: right after, exists is false.
C35_VanishedNotRecreated ==
    (JustReturned("save") /\ ret.probe /\ ~ret.before.live) =>
        /\ IsErr(ret.val)
        /\ ~StorageExists(db, sess.id)
        /\ SessionStoreLoad(db, sess.id).result = OkNone

\* C36. A SessionModel has no destroyed state it cannot leave: a destroy
\* that succeeds keeps the model, its id and its fields, and removes the
\* record; and the save that follows it on the same model finds no record,
\* takes the create path and returns Ok with the record of the same key
\* holding the model's fields.
C36_SaveAfterDestroy ==
    [][ /\ (last' = ModelId /\ ret'.op = "destroy" /\ IsOk(ret'.val)) =>
              /\ sess' = sess
              /\ pc' = "idle"
              /\ ~StorageExists(db', sess'.id)
        /\ (last' = ModelId /\ pc' = "idle" /\ ret'.op = "save" /\ ret'.after = "destroy") =>
              /\ sess' = sess
              /\ ~ret'.probe
              /\ sent' = <<[op |-> "exists", key |-> sess.id], [op |-> "save", key |-> sess.id]>>
              /\ ret'.val = OkUnit
              /\ SessionStoreLoad(db', sess.id).result = OkSome(sess)
      ]_vars
\* A model loaded from the store and given a field has been destroyed and
\* then saved: the record is there again, with the field.
C36_Witness ==
    /\ JustReturned("save") /\ ret.after = "destroy" /\ IsOk(ret.val)
    /\ origin = "load"
    /\ StateContainsKey(sess.state, "flag")
    /\ db[sess.id] = Rec(ToJson(sess.state), NoExpiry)

\* ------------------------------------------ the Store and any time-to-live
\* Every Duration up to the longest of the model, the sub-second ones too.
Durations == 0..(MaxTtlSecs * SubPerSec + 1)
ExpiryCallsOn(ks) ==
    { [op |-> o, key |-> k, state |-> EmptyState, ttl |-> 0, conc |-> FALSE] :
        o \in {"load", "exists"}, k \in ks }
      \cup
    { [op |-> o, key |-> k, state |-> st, ttl |-> t, conc |-> FALSE] :
        o \in SessionOps, k \in ks, st \in OtherStates, t \in Durations }
      \cup TtlCallsOn(ks)

NextExpiry ==
    \/ \E c \in ReplyClients : Request(c, ExpiryCallsOn(SharedKeys))
    \/ \E c \in ReplyClients : Load(c)
    \/ \E c \in ReplyClients : Save(c)
    \/ \E c \in ReplyClients : Update(c)
    \/ \E c \in ReplyClients : Exists(c)
    \/ \E c \in ReplyClients : Ttl(c)
    \/ Tick

SpecExpiry == Init /\ [][NextExpiry]_vars

\* C37. The EX argument is the whole seconds of the TTL: the create and the
\* update command of a TTL carry the decimal text of the greatest number of
\* seconds not above it; two TTLs with the same whole seconds give the same
\* command; a TTL below one second gives EX 0; and the record a save or an
\* update has written has that number of seconds to live.
C37_ExpiryWholeSeconds ==
    /\ \A k \in Keys, st \in OtherStates, t \in Durations :
          LET save == StoreSave(db, SessionNew(k, st), t).cmds
              update == StoreUpdate(db, SessionNew(k, st), t).cmds
          IN  /\ Len(save) = 1 /\ WireSet(k, ToJson(st), "NX", t, save[1])
              /\ Len(update) = 1 /\ WireSet(k, ToJson(st), "XX", t, update[1])
              /\ t < SubPerSec => save[1][6] = <<"0">> /\ update[1][6] = <<"0">>
              /\ \A u \in Durations :
                    (u - (u % SubPerSec) = t - (t % SubPerSec)) =>
                        /\ StoreSave(db, SessionNew(k, st), u).cmds = save
                        /\ StoreUpdate(db, SessionNew(k, st), u).cmds = update
    /\ \A c \in Clients :
          (JustDone(c, "update") /\ IsOk(res[c].val)) =>
              /\ db[call[c].key].ttl * SubPerSec <= call[c].ttl
              /\ call[c].ttl < (db[call[c].key].ttl + 1) * SubPerSec
\* An update with a TTL of one second and a part more has written a record
\* with one second to live.
C37_Witness ==
    \E c \in Clients :
        /\ JustDone(c, "update") /\ IsOk(res[c].val)
        /\ call[c].ttl > SubPerSec /\ call[c].ttl < SubPerSec + SubPerSec
        /\ db[call[c].key].ttl * SubPerSec = SubPerSec
        /\ StoreUpdate(db, CallSession(c), call[c].ttl).cmds
             = StoreUpdate(db, CallSession(c), SubPerSec).cmds
\* A save with a TTL below one second has been sent with EX 0.
C37_WitnessSubSecond ==
    \E c \in Clients :
        /\ JustDone(c, "save") /\ call[c].ttl > 0 /\ call[c].ttl < SubPerSec
        /\ StoreSave(db, CallSession(c), call[c].ttl).cmds[1][6] = <<"0">>
        /\ res[c].val = Err(QueryError)

\* ------------------------------------------------------------ Store::ttl
\* A Duration above zero.
Positive(d) == d.wrap \/ d.units > 0

\* C38. Store ttl returns the remaining time-to-live of the record: right
\* after a ttl of a key whose record is live, the duration returned is not
\* above the TTL most recently written for the key; and for a key with no
\* record (the backend replies a negative integer) the duration returned is
\* not positive: the negative integer is not read as an unsigned number of
\* seconds.
C38_TtlRemaining ==
    \A c \in Clients :
        (JustDone(c, "ttl") /\ IsOk(res[c].val)) =>
            LET k == call[c].key
            IN  /\ (res[c].pre /\ written[k].set) =>
                      /\ ~res[c].dur.wrap
                      /\ res[c].dur.units <= written[k].ttl
                /\ ~res[c].pre => ~Positive(res[c].dur)
\* The part of C38 on live records.
C38_LiveWithinWritten ==
    \A c \in Clients :
        (JustDone(c, "ttl") /\ IsOk(res[c].val) /\ res[c].pre /\ written[call[c].key].set) =>
            /\ ~res[c].dur.wrap
            /\ res[c].dur.units <= written[call[c].key].ttl

====
